---------------------------- MODULE Spec2Model ----------------------------
(***************************************************************************)
(* Model of gocql's event debouncing and dispatch (events.go):             *)
(*   - eventDebouncer: debounce / flusher / flush / stop, with its mutex,  *)
(*     its timer and its timer channel, the quit rendezvous and the        *)
(*     callback goroutines started by flush;                               *)
(*   - Session.handleNodeEvent with handleNodeUp / handleNodeDown;         *)
(*   - Session.handleEvent routing frames to the two debouncers;           *)
(*   - Session.handleSchemaEvent with handleKeyspaceChange;                *)
(*   - handleNodeUp / handleNodeDown / handleNodeConnected called in any   *)
(*     order, and handleNodeEvent while the ring is refreshed.             *)
(*                                                                         *)
(* Time is discrete.  A frame of the debouncer model is identified by its  *)
(* arrival number: frame k is the argument of the k-th debounce call to    *)
(* take the debouncer's lock.                                              *)
(***************************************************************************)
EXTENDS Integers, Sequences, FiniteSets, TLC

(***************************************************************************)
(* Bounds of the model.                                                    *)
(***************************************************************************)
\* events.go:57 sets the capacity to 1000; the model runs the same code with
\* a small capacity so that a full buffer is reached.
eventBufferSize == 2

\* events.go:58 sets the interval to one second; here it is counted in ticks.
eventDebounceTime == 2

\* debounce calls made in one behaviour
MaxFrames == 3

\* the tasks that call debounce concurrently
Producers == {"p1", "p2"}

VARIABLES
    \* ---- eventDebouncer (events.go:12-22)
    events,      \* e.events: the pending sequence
    timer,       \* e.timer: ticks until it expires, -1 when stopped or expired
    timerC,      \* e.timer.C holds a value (the timer fired, nobody received yet)
    mu,          \* e.mu: "free", "flusher" or the producer holding it
    quit,        \* e.quit: "open" or "closed"
    log,         \* what e.logger received, in order
    \* ---- tasks
    fpc,         \* flusher goroutine: "select", "lock", "flush", "unlock", "done"
    ppc,         \* each producer's position in debounce
    fr,          \* each producer's frame argument (0 outside the lock)
    seen,        \* each producer's load of e.events at the length test
    spc,         \* the task calling stop: "idle", "send", "close", "returned"
    calls,       \* callback goroutines started by flush, in order
    \* ---- history
    nArrived,    \* debounce calls that took the lock so far
    accepted,    \* frames debounce appended, in order
    sinceLast,   \* ticks since the last debounce call took the lock (saturating)
    allClose,    \* every call so far followed the previous by less than the interval
    allFar,      \* every call so far followed the previous by more than the interval
    prompt,      \* every call so far found the pending sequence empty
    stoppedAt,   \* debounce calls that had taken the lock when the flusher
                 \* received from e.quit; -1 while the flusher runs
    \* ---- Session.handleNodeEvent (events.go:145-193) and what it reads
    batch,       \* frames: the batch the nodeEvents debouncer flushed
    cfg,         \* s.cfg.Events: DisableTopologyEvents, DisableNodeStatusEvents
    ring,        \* hosts that s.ring.getHostByIP finds
    filtered,    \* hosts of the ring for which s.cfg.filterHost is true
    hostState,   \* the state of each host of the ring
    npc,         \* handleNodeEvent: "scan", "dispatch", "done"
    idx,         \* the scan loop's position in the batch
    topologyEventReceived,
    sEvents,     \* the map from host address to the change of its nodeEvent
    todo,        \* keys the dispatch loop has not visited
    trace,       \* calls made on the session and its collaborators, in order
    \* ---- Session.handleEvent (events.go:89-109)
    schemaEvents,  \* s.schemaEvents: pending sequence and timer
    nodeEvents,    \* s.nodeEvents: pending sequence and timer
    slog,          \* what s.logger and the debouncers' loggers received
    handled        \* what parseFrame returned in each handleEvent call so far

debVars == <<events, timer, timerC, mu, quit, log, fpc, ppc, fr, seen, spc,
             calls, nArrived, accepted, sinceLast, allClose, allFar, prompt,
             stoppedAt>>

nodeVars == <<batch, cfg, ring, filtered, hostState, npc, idx,
              topologyEventReceived, sEvents, todo, trace>>

evVars == <<schemaEvents, nodeEvents, slog, handled>>

vars == <<debVars, nodeVars, evVars>>

name == "nodeEvents"

Range(s) == {s[i] : i \in 1..Len(s)}

(***************************************************************************)
(* newEventDebouncer: empty buffer, timer created and stopped, flusher     *)
(* started.                                                                *)
(***************************************************************************)
newEventDebouncer ==
    /\ events = <<>>
    /\ timer = -1
    /\ timerC = FALSE
    /\ mu = "free"
    /\ quit = "open"
    /\ log = <<>>
    /\ fpc = "select"
    /\ ppc = [p \in Producers |-> "idle"]
    /\ fr = [p \in Producers |-> 0]
    /\ seen = [p \in Producers |-> <<>>]
    /\ spc = "idle"
    /\ calls = <<>>
    /\ nArrived = 0
    /\ accepted = <<>>
    /\ sinceLast = 0
    /\ allClose = TRUE
    /\ allFar = TRUE
    /\ prompt = TRUE
    /\ stoppedAt = -1

\* no batch is being handled by handleNodeEvent
nodeIdle ==
    /\ batch = <<>>
    /\ cfg = [DisableTopologyEvents |-> FALSE, DisableNodeStatusEvents |-> FALSE]
    /\ ring = {}
    /\ filtered = {}
    /\ hostState = <<>>
    /\ npc = "done"
    /\ idx = 1
    /\ topologyEventReceived = FALSE
    /\ sEvents = <<>>
    /\ todo = {}
    /\ trace = <<>>

\* the session's two debouncers as NewSession leaves them
newSessionDebouncers ==
    /\ schemaEvents = [name |-> "schemaEvents", events |-> <<>>, timer |-> -1]
    /\ nodeEvents = [name |-> "nodeEvents", events |-> <<>>, timer |-> -1]
    /\ slog = <<>>
    /\ handled = <<>>

Init ==
    /\ newEventDebouncer
    /\ nodeIdle
    /\ newSessionDebouncers


(***************************************************************************)
(* debounce(frame)                                                         *)
(***************************************************************************)
\* calls made so far: those that took the lock and those waiting for it
issued == nArrived + Cardinality({p \in Producers : ppc[p] = "lock"})

\* a task calls debounce and blocks on e.mu.Lock()
debounceCall(p) ==
    /\ ppc[p] = "idle"
    /\ issued < MaxFrames
    /\ ppc' = [ppc EXCEPT ![p] = "lock"]
    /\ UNCHANGED <<nodeVars, evVars, stoppedAt>>
    /\ UNCHANGED <<events, timer, timerC, mu, quit, log, fpc, fr, seen, spc,
                   calls, nArrived, accepted, sinceLast, allClose, allFar, prompt>>

\* (mutant) debounce without the mutex
debounceLock_noMutex(p) ==
    /\ ppc[p] = "lock"
    /\ mu' = p
    /\ timer' = eventDebounceTime
    /\ timerC' \in {timerC, FALSE}
    /\ ppc' = [ppc EXCEPT ![p] = "test"]
    /\ nArrived' = nArrived + 1
    /\ fr' = [fr EXCEPT ![p] = nArrived + 1]
    /\ allClose' = (allClose /\ (nArrived = 0 \/ sinceLast < eventDebounceTime))
    /\ allFar' = (allFar /\ (nArrived = 0 \/ sinceLast > eventDebounceTime))
    /\ prompt' = (prompt /\ events = <<>>)
    /\ sinceLast' = 0
    /\ UNCHANGED <<nodeVars, evVars, stoppedAt>>
    /\ UNCHANGED <<events, quit, log, fpc, seen, spc, calls, accepted>>

\* (mutant) debounce arms the timer only when it is not running
debounceLock_noRearm(p) ==
    /\ ppc[p] = "lock"
    /\ mu = "free"
    /\ mu' = p
    /\ timer' = IF timer > 0 THEN timer ELSE eventDebounceTime
    /\ timerC' \in {timerC, FALSE}
    /\ ppc' = [ppc EXCEPT ![p] = "test"]
    /\ nArrived' = nArrived + 1
    /\ fr' = [fr EXCEPT ![p] = nArrived + 1]
    /\ allClose' = (allClose /\ (nArrived = 0 \/ sinceLast < eventDebounceTime))
    /\ allFar' = (allFar /\ (nArrived = 0 \/ sinceLast > eventDebounceTime))
    /\ prompt' = (prompt /\ events = <<>>)
    /\ sinceLast' = 0
    /\ UNCHANGED <<nodeVars, evVars, stoppedAt>>
    /\ UNCHANGED <<events, quit, log, fpc, seen, spc, calls, accepted>>

\* (mutant) the timer is reset only by a call whose frame will be appended
debounceLock_rearmIfRoom(p) ==
    /\ ppc[p] = "lock"
    /\ mu = "free"
    /\ mu' = p
    /\ timer' = IF Len(events) < eventBufferSize THEN eventDebounceTime ELSE timer
    /\ timerC' \in {timerC, FALSE}
    /\ ppc' = [ppc EXCEPT ![p] = "test"]
    /\ nArrived' = nArrived + 1
    /\ fr' = [fr EXCEPT ![p] = nArrived + 1]
    /\ allClose' = (allClose /\ (nArrived = 0 \/ sinceLast < eventDebounceTime))
    /\ allFar' = (allFar /\ (nArrived = 0 \/ sinceLast > eventDebounceTime))
    /\ prompt' = (prompt /\ events = <<>>)
    /\ sinceLast' = 0
    /\ UNCHANGED <<nodeVars, evVars, stoppedAt>>
    /\ UNCHANGED <<events, quit, log, fpc, seen, spc, calls, accepted>>

\* e.mu.Lock(); e.timer.Reset(eventDebounceTime).  Reset leaves a value that
\* an earlier expiry put in the channel where it is with Go's asynchronous
\* timer channels and discards it with Go 1.23's synchronous ones.
debounceLock(p) ==
    /\ ppc[p] = "lock"
    /\ mu = "free"
    /\ mu' = p
    /\ timer' = eventDebounceTime
    /\ timerC' \in {timerC, FALSE}
    /\ ppc' = [ppc EXCEPT ![p] = "test"]
    /\ nArrived' = nArrived + 1
    /\ fr' = [fr EXCEPT ![p] = nArrived + 1]
    /\ allClose' = (allClose /\ (nArrived = 0 \/ sinceLast < eventDebounceTime))
    /\ allFar' = (allFar /\ (nArrived = 0 \/ sinceLast > eventDebounceTime))
    /\ prompt' = (prompt /\ events = <<>>)
    /\ sinceLast' = 0
    /\ UNCHANGED <<nodeVars, evVars, stoppedAt>>
    /\ UNCHANGED <<events, quit, log, fpc, seen, spc, calls, accepted>>

\* (mutant) the capacity test off by one: len(e.events) <= eventBufferSize
debounceTest_offByOne(p) ==
    /\ ppc[p] = "test"
    /\ seen' = [seen EXCEPT ![p] = events]
    /\ ppc' = [ppc EXCEPT ![p] =
                  IF Len(events) <= eventBufferSize THEN "append" ELSE "warn"]
    /\ UNCHANGED <<nodeVars, evVars, stoppedAt>>
    /\ UNCHANGED <<events, timer, timerC, mu, quit, log, fpc, fr, spc, calls,
                   nArrived, accepted, sinceLast, allClose, allFar, prompt>>

\* if len(e.events) < eventBufferSize
debounceTest(p) ==
    /\ ppc[p] = "test"
    /\ seen' = [seen EXCEPT ![p] = events]
    /\ ppc' = [ppc EXCEPT ![p] =
                  IF Len(events) < eventBufferSize THEN "append" ELSE "warn"]
    /\ UNCHANGED <<nodeVars, evVars, stoppedAt>>
    /\ UNCHANGED <<events, timer, timerC, mu, quit, log, fpc, fr, spc, calls,
                   nArrived, accepted, sinceLast, allClose, allFar, prompt>>

\* e.events = append(e.events, frame)
debounceAppend(p) ==
    /\ ppc[p] = "append"
    /\ events' = Append(seen[p], fr[p])
    /\ accepted' = Append(accepted, fr[p])
    /\ seen' = [seen EXCEPT ![p] = <<>>]
    /\ ppc' = [ppc EXCEPT ![p] = "unlock"]
    /\ UNCHANGED <<nodeVars, evVars, stoppedAt>>
    /\ UNCHANGED <<timer, timerC, mu, quit, log, fpc, fr, spc, calls,
                   nArrived, sinceLast, allClose, allFar, prompt>>

\* e.logger.Warning("%s: buffer full, dropping event frame: %s", name, frame)
bufferFullWarning(f) ==
    [level |-> "warning", event_name |-> name, frame |-> f]

debounceWarn(p) ==
    /\ ppc[p] = "warn"
    /\ log' = Append(log, bufferFullWarning(fr[p]))
    /\ seen' = [seen EXCEPT ![p] = <<>>]
    /\ ppc' = [ppc EXCEPT ![p] = "unlock"]
    /\ UNCHANGED <<nodeVars, evVars, stoppedAt>>
    /\ UNCHANGED <<events, timer, timerC, mu, quit, fpc, fr, spc, calls,
                   nArrived, accepted, sinceLast, allClose, allFar, prompt>>

\* e.mu.Unlock(); debounce returns
debounceUnlock(p) ==
    /\ ppc[p] = "unlock"
    /\ mu' = "free"
    /\ ppc' = [ppc EXCEPT ![p] = "idle"]
    /\ fr' = [fr EXCEPT ![p] = 0]
    /\ UNCHANGED <<nodeVars, evVars, stoppedAt>>
    /\ UNCHANGED <<events, timer, timerC, quit, log, fpc, seen, spc, calls,
                   nArrived, accepted, sinceLast, allClose, allFar, prompt>>

(***************************************************************************)
(* The timer and the clock.                                                *)
(***************************************************************************)
\* the runtime sends on e.timer.C when the timer expires
timerFire ==
    /\ timer = 0
    /\ timer' = -1
    /\ timerC' = TRUE
    /\ UNCHANGED <<nodeVars, evVars, stoppedAt>>
    /\ UNCHANGED <<events, mu, quit, log, fpc, ppc, fr, seen, spc, calls,
                   nArrived, accepted, sinceLast, allClose, allFar, prompt>>

\* one tick of time; an expired timer fires before time goes on
Tick ==
    /\ timer # 0
    /\ nArrived > 0
    /\ sinceLast <= eventDebounceTime
    /\ timer' = IF timer > 0 THEN timer - 1 ELSE timer
    /\ sinceLast' = sinceLast + 1
    /\ UNCHANGED <<nodeVars, evVars, stoppedAt>>
    /\ UNCHANGED <<events, timerC, mu, quit, log, fpc, ppc, fr, seen, spc,
                   calls, nArrived, accepted, allClose, allFar, prompt>>

\* the rest of the armed timer's interval passes at once
Elapse ==
    /\ timer > 0
    /\ timer' = 0
    /\ sinceLast' = sinceLast + timer
    /\ UNCHANGED <<nodeVars, evVars, stoppedAt>>
    /\ UNCHANGED <<events, timerC, mu, quit, log, fpc, ppc, fr, seen, spc,
                   calls, nArrived, accepted, allClose, allFar, prompt>>

(***************************************************************************)
(* flusher and flush                                                       *)
(***************************************************************************)
\* case <-e.timer.C:
flusherTimer ==
    /\ fpc = "select"
    /\ timerC
    /\ timerC' = FALSE
    /\ fpc' = "lock"
    /\ UNCHANGED <<nodeVars, evVars, stoppedAt>>
    /\ UNCHANGED <<events, timer, mu, quit, log, ppc, fr, seen, spc, calls,
                   nArrived, accepted, sinceLast, allClose, allFar, prompt>>

\* (mutant) the flusher flushes what is pending before it returns
flusherQuit_flushes ==
    /\ fpc = "select"
    /\ spc = "send"
    /\ IF Len(events) = 0
       THEN UNCHANGED <<events, calls>>
       ELSE /\ calls' = Append(calls, [batch |-> events, at |-> sinceLast,
                                       running |-> TRUE])
            /\ events' = <<>>
    /\ fpc' = "done"
    /\ spc' = "close"
    /\ stoppedAt' = nArrived
    /\ UNCHANGED <<nodeVars, evVars>>
    /\ UNCHANGED <<timer, timerC, mu, quit, log, ppc, fr, seen,
                   nArrived, accepted, sinceLast, allClose, allFar, prompt>>

\* case <-e.quit: return.  The receive completes stop's send.
flusherQuit ==
    /\ fpc = "select"
    /\ spc = "send"
    /\ fpc' = "done"
    /\ spc' = "close"
    /\ stoppedAt' = nArrived
    /\ UNCHANGED <<nodeVars, evVars>>
    /\ UNCHANGED <<events, timer, timerC, mu, quit, log, ppc, fr, seen, calls,
                   nArrived, accepted, sinceLast, allClose, allFar, prompt>>

\* e.mu.Lock()
flusherLock ==
    /\ fpc = "lock"
    /\ mu = "free"
    /\ mu' = "flusher"
    /\ fpc' = "flush"
    /\ UNCHANGED <<nodeVars, evVars, stoppedAt>>
    /\ UNCHANGED <<events, timer, timerC, quit, log, ppc, fr, seen, spc, calls,
                   nArrived, accepted, sinceLast, allClose, allFar, prompt>>

\* the goroutine `go e.callback(e.events)` starts
callbackStart(frames) ==
    [batch |-> frames, at |-> sinceLast, running |-> TRUE]

\* (mutant) flush starts the callback and keeps the buffer
flush_keepBuffer ==
    IF Len(events) = 0
    THEN UNCHANGED <<events, calls>>
    ELSE /\ calls' = Append(calls, callbackStart(events))
         /\ events' = events

\* (mutant) flush without the test for an empty buffer
flush_noEmptyTest ==
    /\ calls' = Append(calls, callbackStart(events))
    /\ events' = <<>>

\* (mutant) flush calls the callback itself and returns when it has returned
flush_callInline ==
    IF Len(events) = 0
    THEN UNCHANGED <<events, calls>>
    ELSE /\ calls' = Append(calls, [callbackStart(events) EXCEPT !.running = FALSE])
         /\ events' = <<>>

\* flush(): nothing when the buffer is empty; else start the callback on the
\* buffer and replace the buffer by a fresh empty one
flush ==
    IF Len(events) = 0
    THEN UNCHANGED <<events, calls>>
    ELSE /\ calls' = Append(calls, callbackStart(events))
         /\ events' = <<>>

\* (mutant) the flusher flushes only a full buffer
flusherFlush_onlyFull ==
    /\ fpc = "flush"
    /\ IF Len(events) < eventBufferSize THEN UNCHANGED <<events, calls>> ELSE flush
    /\ fpc' = "unlock"
    /\ UNCHANGED <<nodeVars, evVars, stoppedAt>>
    /\ UNCHANGED <<timer, timerC, mu, quit, log, ppc, fr, seen, spc,
                   nArrived, accepted, sinceLast, allClose, allFar, prompt>>

\* e.flush() with the lock held
flusherFlush ==
    /\ fpc = "flush"
    /\ flush
    /\ fpc' = "unlock"
    /\ UNCHANGED <<nodeVars, evVars, stoppedAt>>
    /\ UNCHANGED <<timer, timerC, mu, quit, log, ppc, fr, seen, spc,
                   nArrived, accepted, sinceLast, allClose, allFar, prompt>>

\* e.mu.Unlock(), back to the select
flusherUnlock ==
    /\ fpc = "unlock"
    /\ mu' = "free"
    /\ fpc' = "select"
    /\ UNCHANGED <<nodeVars, evVars, stoppedAt>>
    /\ UNCHANGED <<events, timer, timerC, quit, log, ppc, fr, seen, spc, calls,
                   nArrived, accepted, sinceLast, allClose, allFar, prompt>>

\* a callback goroutine returns
callbackReturn(i) ==
    /\ i \in 1..Len(calls)
    /\ calls[i].running
    /\ calls' = [calls EXCEPT ![i].running = FALSE]
    /\ UNCHANGED <<nodeVars, evVars, stoppedAt>>
    /\ UNCHANGED <<events, timer, timerC, mu, quit, log, fpc, ppc, fr, seen,
                   spc, nArrived, accepted, sinceLast, allClose, allFar, prompt>>

(***************************************************************************)
(* stop()                                                                  *)
(***************************************************************************)
\* (mutant) the send does not wait for the flusher (a buffered quit channel)
stopSend_buffered ==
    /\ spc = "idle"
    /\ spc' = "close"
    /\ UNCHANGED <<nodeVars, evVars, stoppedAt>>
    /\ UNCHANGED <<events, timer, timerC, mu, quit, log, fpc, ppc, fr, seen,
                   calls, nArrived, accepted, sinceLast, allClose, allFar, prompt>>

\* e.quit <- struct{}{}: the send blocks until the flusher receives
stopSend ==
    /\ spc = "idle"
    /\ spc' = "send"
    /\ UNCHANGED <<nodeVars, evVars, stoppedAt>>
    /\ UNCHANGED <<events, timer, timerC, mu, quit, log, fpc, ppc, fr, seen,
                   calls, nArrived, accepted, sinceLast, allClose, allFar, prompt>>

\* close(e.quit); stop returns
stopClose ==
    /\ spc = "close"
    /\ quit' = "closed"
    /\ spc' = "returned"
    /\ UNCHANGED <<nodeVars, evVars, stoppedAt>>
    /\ UNCHANGED <<events, timer, timerC, mu, log, fpc, ppc, fr, seen,
                   calls, nArrived, accepted, sinceLast, allClose, allFar, prompt>>

Next ==
    \/ \E p \in Producers : debounceCall(p)
    \/ \E p \in Producers : debounceLock(p)
    \/ \E p \in Producers : debounceTest(p)
    \/ \E p \in Producers : debounceAppend(p)
    \/ \E p \in Producers : debounceWarn(p)
    \/ \E p \in Producers : debounceUnlock(p)
    \/ timerFire
    \/ Tick
    \/ flusherTimer
    \/ flusherQuit
    \/ flusherLock
    \/ flusherFlush
    \/ flusherUnlock
    \/ \E i \in 1..Len(calls) : callbackReturn(i)
    \/ stopSend
    \/ stopClose

Spec == Init /\ [][Next]_vars

(***************************************************************************)
(* Scheduling.  Every goroutine that can run does run (weak fairness of    *)
(* its steps); sync.Mutex hands the lock to every waiter (its starvation   *)
(* mode) and select chooses at random among its ready cases, hence strong  *)
(* fairness of the lock steps and of the quit case.  Nothing makes a task  *)
(* call debounce or stop, and nothing makes a callback return.             *)
(***************************************************************************)
producerStep(p) ==
    debounceTest(p) \/ debounceAppend(p) \/ debounceWarn(p) \/ debounceUnlock(p)

flusherStep ==
    flusherTimer \/ flusherQuit \/ flusherFlush \/ flusherUnlock

\* the same steps with time passing from one timer expiry to the next
NextFair ==
    \/ \E p \in Producers : debounceCall(p)
    \/ \E p \in Producers : debounceLock(p)
    \/ \E p \in Producers : debounceTest(p)
    \/ \E p \in Producers : debounceAppend(p)
    \/ \E p \in Producers : debounceWarn(p)
    \/ \E p \in Producers : debounceUnlock(p)
    \/ timerFire
    \/ Elapse
    \/ flusherTimer
    \/ flusherQuit
    \/ flusherLock
    \/ flusherFlush
    \/ flusherUnlock
    \/ \E i \in 1..Len(calls) : callbackReturn(i)
    \/ stopSend
    \/ stopClose

Fairness ==
    /\ \A p \in Producers : SF_vars(debounceLock(p)) /\ WF_vars(producerStep(p))
    /\ WF_vars(timerFire)
    /\ WF_vars(Elapse)
    /\ WF_vars(flusherStep)
    /\ SF_vars(flusherQuit)
    /\ SF_vars(flusherLock)
    /\ WF_vars(stopClose)

FairSpec == Init /\ [][NextFair]_vars /\ Fairness

(***************************************************************************)
(* Properties of the debouncer.                                            *)
(***************************************************************************)
Count(s, f) == Cardinality({i \in 1..Len(s) : s[i] = f})

RECURSIVE Flatten(_)
Flatten(cs) ==
    IF cs = <<>> THEN <<>> ELSE cs[1].batch \o Flatten(Tail(cs))

Iota(n) == [k \in 1..n |-> k]

\* a producer is inside debounce's critical section
InCritical(p) == ppc[p] \in {"test", "append", "warn", "unlock"}

\* nothing is left for the debouncer to do: no call in progress, the timer
\* stopped, its channel empty and the flusher waiting in its select
Settled ==
    /\ \A p \in Producers : ppc[p] = "idle"
    /\ timer = -1
    /\ ~timerC
    /\ fpc = "select"

\* C1: the pending sequence never holds more than eventBufferSize frames, and
\* a debounce call that finds it at capacity leaves it unchanged and logs
\* exactly one warning, which names the debouncer and the dropped frame.
C1_Step ==
    \A p \in Producers :
        /\ (ppc[p] = "test" /\ Len(events) >= eventBufferSize)
              => /\ ppc'[p] \in {"test", "warn"}
                 /\ events' = events
                 /\ log' = log
        /\ ppc[p] = "warn"
              => /\ events' = events
                 /\ Len(events) = eventBufferSize
                 /\ \/ ppc'[p] = "warn" /\ log' = log
                    \/ /\ ppc'[p] = "unlock"
                       /\ log' = Append(log, [level |-> "warning",
                                               event_name |-> name,
                                               frame |-> fr[p]])
        /\ ppc[p] = "unlock"
              => /\ events' = events
                 /\ log' = log
                 /\ ppc'[p] \in {"unlock", "idle"}

C1_BoundedBuffer ==
    /\ [](Len(events) <= eventBufferSize)
    /\ [][C1_Step]_vars

C1_Witness ==
    /\ Len(events) = eventBufferSize
    /\ Len(log) = 1
    /\ log[1].frame = eventBufferSize + 1
    /\ \A p \in Producers : ppc[p] = "idle"

\* C2: every accepted frame is in exactly one place, the pending sequence or
\* the batch of one callback invocation, nothing else is in either, and the
\* batch of a started callback never changes.
C2_OnePlace ==
    /\ \A f \in Range(accepted) :
          Count(events, f) + Count(Flatten(calls), f) = 1
    /\ Range(events) \cup Range(Flatten(calls)) \subseteq Range(accepted)

C2_BatchesFrozen ==
    \A i \in 1..Len(calls) :
        /\ i <= Len(calls')
        /\ calls'[i].batch = calls[i].batch

C2_ExactlyOnce ==
    /\ []C2_OnePlace
    /\ [][C2_BatchesFrozen]_vars

\* a frame arrived while the first callback was running and is in a second batch
C2_Witness ==
    /\ Len(calls) = 2
    /\ calls[1].running
    /\ calls[1].batch = <<1>>
    /\ calls[2].batch = <<2>>
    /\ events = <<3>>


\* C3: debounce calls each less than the interval after the previous one (no
\* more of them than the buffer holds) lead to exactly one callback
\* invocation; its batch is all the frames in arrival order and it starts no
\* sooner than one interval after the last call.
C3_Burst ==
    /\ allClose
    /\ nArrived >= 1
    /\ nArrived <= eventBufferSize

C3_OneFlush ==
    C3_Burst =>
        /\ Len(calls) <= 1
        /\ \A i \in 1..Len(calls) :
              /\ calls[i].batch = Iota(nArrived)
              /\ calls[i].at >= eventDebounceTime
        /\ Settled => Len(calls) = 1

\* under the fair scheduler the invocation does occur while the flusher runs
C3_Eventually ==
    C3_Burst ~> (Len(calls) = 1 \/ ~C3_Burst \/ fpc = "done")

\* two calls less than an interval apart were flushed together, one interval
\* after the second
C3_Witness ==
    /\ allClose
    /\ nArrived = 2
    /\ Len(calls) = 1
    /\ calls[1].batch = <<1, 2>>
    /\ Settled

\* C4 as stated: calls each more than the interval after the previous one get
\* one callback invocation per call, each with that call's frame alone.
C4_Spaced ==
    /\ allFar
    /\ nArrived >= 1

C4_OnePerCall ==
    (C4_Spaced /\ Settled) =>
        /\ Len(calls) = nArrived
        /\ \A i \in 1..Len(calls) : calls[i].batch = <<i>>

\* C4 as amended: with calls more than the interval apart there is one
\* invocation per call, with that call's frame alone, when every call found
\* the pending sequence empty (the flusher had flushed the call before it by
\* then); under any scheduling there are no more invocations than calls and
\* the batches in invocation order followed by the pending sequence are the
\* accepted frames in arrival order.
C4_Amended ==
    C4_Spaced =>
        /\ Flatten(calls) \o events = accepted
        /\ Len(calls) <= nArrived
        /\ prompt => \A i \in 1..Len(calls) : calls[i].batch = <<i>>
        /\ (prompt /\ Settled) => Len(calls) = nArrived

\* two calls more than an interval apart, each flushed alone
C4_Witness ==
    /\ allFar
    /\ prompt
    /\ nArrived = 2
    /\ Settled
    /\ Len(calls) = 2

\* C5: stop returns only once the flusher has received the quit signal and
\* returned; after stop has returned no callback is started, whatever the
\* timer does; and a stop that is called does return.
C5_NoFlushAfterStop == spc = "returned" => Len(calls') = Len(calls)

C5_StopSync ==
    /\ [](spc \in {"close", "returned"} => fpc = "done")
    /\ [][C5_NoFlushAfterStop]_vars
    /\ spc = "send" ~> spc = "returned"

\* stop has returned while the timer had fired and frames were pending
C5_Witness ==
    /\ spc = "returned"
    /\ timerC
    /\ Len(events) > 0

\* C6: with concurrent producers and the flusher, the frames in the batches
\* and in the pending sequence are the accepted frames, each once and in
\* order, and every frame of a call is accepted, dropped with a warning or
\* still in its call; the lock is held by one task at a time and only by a
\* producer between Lock and Unlock in debounce or by the flusher around
\* flush; and with callbacks that never return, every debounce call returns
\* and every timer firing the flusher took is flushed.
C6_Frames ==
    /\ Flatten(calls) \o events = accepted
    /\ \A f \in 1..nArrived :
          Count(accepted, f)
          + Cardinality({i \in 1..Len(log) : log[i].frame = f})
          + Cardinality({p \in Producers :
                            fr[p] = f /\ ppc[p] \in {"test", "append", "warn"}})
          = 1

C6_Lock ==
    LET holders == {p \in Producers : InCritical(p)}
                   \cup (IF fpc \in {"flush", "unlock"} THEN {"flusher"} ELSE {})
    IN  /\ Cardinality(holders) <= 1
        /\ holders = (IF mu = "free" THEN {} ELSE {mu})

C6_Concurrent ==
    /\ [](C6_Frames /\ C6_Lock)
    /\ \A p \in Producers : ppc[p] = "lock" ~> ppc[p] = "idle"
    /\ fpc = "lock" ~> fpc = "select"

\* a producer waits for the lock that the flusher holds after starting a
\* callback, which is running
C6_Witness ==
    /\ ppc["p1"] = "lock"
    /\ fpc = "unlock"
    /\ mu = "flusher"
    /\ Len(calls) = 1
    /\ calls[1].running

(***************************************************************************)
(* Session.handleNodeEvent, handleNodeUp and handleNodeDown.               *)
(*                                                                         *)
(* A node frame is [kind, change, host]; the port is only logged by this   *)
(* code and is left out, as are the log calls.  The trace lists the calls  *)
(* made, each [op, host, by]: by names the function that makes the call.   *)
(***************************************************************************)
\* frames in one batch
MaxBatch == 3

Hosts == {"h1", "h2"}

StatusChanges == {"UP", "DOWN", "JOINING"}

TopologyChanges == {"NEW_NODE"}

statusChangeEventFrame ==
    [kind : {"status"}, change : StatusChanges, host : Hosts]

topologyChangeEventFrame ==
    [kind : {"topology"}, change : TopologyChanges, host : Hosts]

NodeFrames == statusChangeEventFrame \cup topologyChangeEventFrame

SeqsUpTo(S, n) == UNION {[1..k -> S] : k \in 0..n}

Call(op, h, by) == [op |-> op, host |-> h, by |-> by]

\* a batch arrives from the nodeEvents debouncer: handleNodeEvent's locals
handleNodeEventEntry ==
    /\ npc = "scan"
    /\ idx = 1
    /\ topologyEventReceived = FALSE
    /\ sEvents = [h \in Hosts |-> "none"]
    /\ todo = {}
    /\ trace = <<>>

InitNode ==
    /\ newEventDebouncer
    /\ newSessionDebouncers
    /\ batch \in SeqsUpTo(NodeFrames, MaxBatch)
    /\ cfg \in [DisableTopologyEvents : BOOLEAN, DisableNodeStatusEvents : BOOLEAN]
    /\ ring \in SUBSET Hosts
    /\ filtered \in SUBSET ring
    /\ hostState = [h \in ring |-> "UP"]
    /\ handleNodeEventEntry

\* (mutant) the scan keeps the first change seen for a host
mergeStatus_firstWins(m, f) ==
    IF m[f.host] = "none" THEN [m EXCEPT ![f.host] = f.change] ELSE m

\* events.go:163-168: insert the host's nodeEvent if it has none, then set
\* its change to this frame's
mergeStatus(m, f) ==
    [m EXCEPT ![f.host] = f.change]

\* (mutant) every topology frame requests the refresh as it is scanned
scanTopology_refreshEach ==
    /\ topologyEventReceived' = TRUE
    /\ trace' = IF cfg.DisableTopologyEvents THEN trace
                ELSE Append(trace, Call("debounceRingRefresh", "-", "handleNodeEvent"))

\* events.go:158-161: a topology frame only sets the flag
scanTopology ==
    /\ topologyEventReceived' = TRUE
    /\ trace' = trace

\* events.go:156-170: one iteration of the loop over the frames
nodeScan ==
    /\ npc = "scan"
    /\ idx <= Len(batch)
    /\ IF batch[idx].kind = "topology"
       THEN /\ scanTopology
            /\ sEvents' = sEvents
       ELSE /\ sEvents' = mergeStatus(sEvents, batch[idx])
            /\ UNCHANGED <<topologyEventReceived, trace>>
    /\ idx' = idx + 1
    /\ UNCHANGED <<debVars, evVars>>
    /\ UNCHANGED <<batch, cfg, ring, filtered, hostState, npc, todo>>

\* (mutant) the refresh is requested whatever DisableTopologyEvents says
refreshWanted_ignoreFlag == topologyEventReceived

\* (mutant) the refresh is requested only when no status event is to be
\* dispatched
refreshWanted_ifNoStatus ==
    /\ topologyEventReceived
    /\ ~cfg.DisableTopologyEvents
    /\ \A h \in Hosts : sEvents[h] = "none"

\* events.go:172
refreshWanted == topologyEventReceived /\ ~cfg.DisableTopologyEvents

\* events.go:172-176: after the scan, the refresh request for the topology
\* frames, then the dispatch loop starts over the keys of sEvents
nodeRefresh ==
    /\ npc = "scan"
    /\ idx > Len(batch)
    /\ trace' = IF refreshWanted
                THEN Append(trace, Call("debounceRingRefresh", "-", "handleNodeEvent"))
                ELSE trace
    /\ todo' = {h \in Hosts : sEvents[h] # "none"}
    /\ npc' = IF todo' = {} THEN "done" ELSE "dispatch"
    /\ UNCHANGED <<debVars, evVars>>
    /\ UNCHANGED <<batch, cfg, ring, filtered, hostState, idx,
                   topologyEventReceived, sEvents>>

\* (mutant) the host filter is not consulted
handleNodeUp_noFilter(h) ==
    IF h \notin ring
    THEN <<Call("debounceRingRefresh", h, "handleNodeUp")>>
    ELSE <<Call("pool.addHost", h, "handleNodeUp"),
           Call("policy.AddHost", h, "handleNodeUp")>>

\* (mutant) a host the ring does not hold is ignored
handleNodeUp_dropUnknown(h) ==
    IF h \notin ring \/ h \in filtered
    THEN <<>>
    ELSE <<Call("pool.addHost", h, "handleNodeUp"),
           Call("policy.AddHost", h, "handleNodeUp")>>

\* (mutant) the state is set to UP when the pool is asked to add the host
handleNodeUp_setsUp(h) ==
    IF h \notin ring
    THEN <<Call("debounceRingRefresh", h, "handleNodeUp")>>
    ELSE IF h \in filtered
    THEN <<>>
    ELSE <<Call("setState(NodeUp)", h, "handleNodeUp"),
           Call("pool.addHost", h, "handleNodeUp"),
           Call("policy.AddHost", h, "handleNodeUp")>>

\* events.go:195-219: handleNodeUp with startPoolFill (the sleep of
\* nodeUpDelay changes no state); the calls it makes
handleNodeUp(h) ==
    IF h \notin ring
    THEN <<Call("debounceRingRefresh", h, "handleNodeUp")>>
    ELSE IF h \in filtered
    THEN <<>>
    ELSE <<Call("pool.addHost", h, "handleNodeUp"),
           Call("policy.AddHost", h, "handleNodeUp")>>

\* (mutant) the filter is applied before the state is set
handleNodeDown_filterFirst(h) ==
    IF h \notin ring \/ h \in filtered
    THEN <<>>
    ELSE <<Call("setState(NodeDown)", h, "handleNodeDown"),
           Call("policy.HostDown", h, "handleNodeDown"),
           Call("pool.removeHost", h, "handleNodeDown")>>

\* events.go:232-247: handleNodeDown; the calls it makes
handleNodeDown(h) ==
    IF h \notin ring
    THEN <<>>
    ELSE IF h \in filtered
    THEN <<Call("setState(NodeDown)", h, "handleNodeDown")>>
    ELSE <<Call("setState(NodeDown)", h, "handleNodeDown"),
           Call("policy.HostDown", h, "handleNodeDown"),
           Call("pool.removeHost", h, "handleNodeDown")>>

\* (mutant) the dispatch does not look at DisableNodeStatusEvents
dispatchCalls_ignoreFlag(h) ==
    IF sEvents[h] = "UP"
    THEN <<Call("handleNodeUp", h, "handleNodeEvent")>> \o handleNodeUp(h)
    ELSE IF sEvents[h] = "DOWN"
    THEN <<Call("handleNodeDown", h, "handleNodeEvent")>> \o handleNodeDown(h)
    ELSE <<>>

\* events.go:182-191: the switch on the merged change
dispatchCalls(h) ==
    IF sEvents[h] = "UP" /\ ~cfg.DisableNodeStatusEvents
    THEN <<Call("handleNodeUp", h, "handleNodeEvent")>> \o handleNodeUp(h)
    ELSE IF sEvents[h] = "DOWN" /\ ~cfg.DisableNodeStatusEvents
    THEN <<Call("handleNodeDown", h, "handleNodeEvent")>> \o handleNodeDown(h)
    ELSE <<>>

\* host.setState as recorded in the calls: the last one made for a host
\* gives its state
setStates(cs, hs) ==
    [h \in DOMAIN hs |->
        LET sets == {i \in 1..Len(cs) :
                        /\ cs[i].op \in {"setState(NodeDown)", "setState(NodeUp)"}
                        /\ cs[i].host = h}
        IN  IF sets = {} THEN hs[h]
            ELSE LET last == CHOOSE i \in sets : \A j \in sets : j <= i
                 IN  IF cs[last].op = "setState(NodeUp)" THEN "UP" ELSE "DOWN"]

\* events.go:176-192: one iteration of the loop over the map, whose order Go
\* leaves open
nodeDispatch(h) ==
    /\ npc = "dispatch"
    /\ h \in todo
    /\ trace' = trace \o dispatchCalls(h)
    /\ hostState' = setStates(dispatchCalls(h), hostState)
    /\ todo' = todo \ {h}
    /\ npc' = IF todo' = {} THEN "done" ELSE "dispatch"
    /\ UNCHANGED <<debVars, evVars>>
    /\ UNCHANGED <<batch, cfg, ring, filtered, idx, topologyEventReceived, sEvents>>

NextNode ==
    \/ nodeScan
    \/ nodeRefresh
    \/ \E h \in Hosts : nodeDispatch(h)

NodeSpec == InitNode /\ [][NextNode]_vars

(***************************************************************************)
(* Properties of handleNodeEvent.                                          *)
(***************************************************************************)
StatusIdx(h) ==
    {i \in 1..Len(batch) : batch[i].kind = "status" /\ batch[i].host = h}

\* the change of the last status frame for h in the batch
LastChange(h) ==
    LET last == CHOOSE i \in StatusIdx(h) : \A j \in StatusIdx(h) : j <= i
    IN  batch[last].change

Dispatches(h) ==
    {i \in 1..Len(trace) :
        /\ trace[i].op \in {"handleNodeUp", "handleNodeDown"}
        /\ trace[i].host = h}

HasTopology == \E i \in 1..Len(batch) : batch[i].kind = "topology"

TopologyRefreshes ==
    {i \in 1..Len(trace) :
        /\ trace[i].op = "debounceRingRefresh"
        /\ trace[i].by = "handleNodeEvent"}

\* C7: for a host with status frames in the batch, at most one of
\* handleNodeUp / handleNodeDown is dispatched, the one the host's last
\* status frame names (none when that names neither); when status events
\* are enabled and handleNodeEvent has returned, it has been dispatched.
C7_LastWriteWins ==
    \A h \in Hosts :
        /\ Cardinality(Dispatches(h)) <= 1
        /\ \A i \in Dispatches(h) :
              /\ StatusIdx(h) # {}
              /\ LastChange(h) = "UP" => trace[i].op = "handleNodeUp"
              /\ LastChange(h) = "DOWN" => trace[i].op = "handleNodeDown"
              /\ LastChange(h) \in {"UP", "DOWN"}
        /\ (/\ npc = "done"
            /\ StatusIdx(h) # {}
            /\ LastChange(h) \in {"UP", "DOWN"}
            /\ ~cfg.DisableNodeStatusEvents)
              => Cardinality(Dispatches(h)) = 1

\* DOWN then UP for h1 dispatched handleNodeUp alone
C7_Witness ==
    /\ npc = "done"
    /\ Len(batch) >= 2
    /\ batch[1] = [kind |-> "status", change |-> "DOWN", host |-> "h1"]
    /\ batch[2] = [kind |-> "status", change |-> "UP", host |-> "h1"]
    /\ \E i \in Dispatches("h1") : trace[i].op = "handleNodeUp"

\* C8: handleNodeEvent requests the ring refresh for the topology frames of
\* its batch once, however many they are, when topology events are enabled,
\* before any handleNodeUp or handleNodeDown; with no topology frame it
\* requests none.
C8_OneRefreshFirst ==
    /\ Cardinality(TopologyRefreshes) <= 1
    /\ \A i \in TopologyRefreshes :
          /\ i = 1
          /\ HasTopology
          /\ ~cfg.DisableTopologyEvents
    /\ (npc # "scan" /\ HasTopology /\ ~cfg.DisableTopologyEvents)
          => TopologyRefreshes = {1}

\* two topology frames and a status frame: one refresh, then the dispatch
C8_Witness ==
    /\ npc = "done"
    /\ Cardinality({i \in 1..Len(batch) : batch[i].kind = "topology"}) = 2
    /\ Len(trace) >= 2
    /\ trace[1].op = "debounceRingRefresh"
    /\ trace[2].op \in {"handleNodeUp", "handleNodeDown"}

Refreshes == {i \in 1..Len(trace) : trace[i].op = "debounceRingRefresh"}

\* C9 as stated: with DisableTopologyEvents no ring refresh is requested while
\* a batch is processed, and with DisableNodeStatusEvents handleNodeUp and
\* handleNodeDown are not called and no host state, pool or policy call is
\* made.
C9_Disabled ==
    /\ (cfg.DisableTopologyEvents /\ HasTopology) => Refreshes = {}
    /\ cfg.DisableNodeStatusEvents =>
          /\ \A i \in 1..Len(trace) : trace[i].op = "debounceRingRefresh"
          /\ hostState = [h \in ring |-> "UP"]

\* C9 as amended: with DisableTopologyEvents the topology frames request no
\* ring refresh; a refresh is then requested only by handleNodeUp, for a host
\* whose last status frame is UP and which the ring does not hold.  With
\* DisableNodeStatusEvents handleNodeUp and handleNodeDown are not called and
\* no host state, pool or policy call is made.
C9_Amended ==
    /\ cfg.DisableTopologyEvents =>
          \A i \in Refreshes :
              /\ trace[i].by = "handleNodeUp"
              /\ trace[i].host \in Hosts \ ring
              /\ StatusIdx(trace[i].host) # {}
              /\ LastChange(trace[i].host) = "UP"
              /\ ~cfg.DisableNodeStatusEvents
    /\ cfg.DisableNodeStatusEvents =>
          /\ \A i \in 1..Len(trace) :
                /\ trace[i].op = "debounceRingRefresh"
                /\ trace[i].by = "handleNodeEvent"
          /\ hostState = [h \in ring |-> "UP"]

\* topology events disabled, a topology frame and a status UP frame for a host
\* outside the ring: the only call is handleNodeUp's refresh request
C9_Witness ==
    /\ npc = "done"
    /\ cfg.DisableTopologyEvents
    /\ HasTopology
    /\ Refreshes # {}
    /\ \A i \in Refreshes : trace[i].by = "handleNodeUp"

\* status events disabled and status frames for hosts of the ring: no call
C9_WitnessStatus ==
    /\ npc = "done"
    /\ cfg.DisableNodeStatusEvents
    /\ ~cfg.DisableTopologyEvents
    /\ \E h \in ring \ filtered : StatusIdx(h) # {} /\ LastChange(h) = "DOWN"
    /\ ~HasTopology
    /\ trace = <<>>

(***************************************************************************)
(* Session.handleEvent.  A debouncer of the session is the record of its   *)
(* name, pending sequence and timer; debounce runs to completion here.     *)
(***************************************************************************)
\* frames handed to handleEvent in one behaviour
MaxEvents == 3

SchemaFrames ==
    {"schemaChangeKeyspace", "schemaChangeFunction", "schemaChangeTable",
     "schemaChangeAggregate", "schemaChangeType"}

StatusTopologyFrames == {"topologyChangeEventFrame", "statusChangeEventFrame"}

\* a frame type parseFrame can return that is no event
OtherFrames == {"readyFrame"}

\* what framer.parseFrame() returns: a frame, or an error
ParseResults ==
    [err : {FALSE}, frame : SchemaFrames \cup StatusTopologyFrames \cup OtherFrames]
    \cup {[err |-> TRUE, frame |-> "nil"]}

InitEvent ==
    /\ newEventDebouncer
    /\ nodeIdle
    /\ newSessionDebouncers

\* events.go:74-87 on debouncer d: the timer is reset, the frame appended
\* unless the buffer is full
debounce(d, f) ==
    [d EXCEPT !.timer = eventDebounceTime,
              !.events = IF Len(@) < eventBufferSize THEN Append(@, f) ELSE @]

\* events.go:82-83: what debounce logs
debounceLogs(d, f) ==
    IF Len(d.events) < eventBufferSize
    THEN <<>>
    ELSE <<[level |-> "warning", msg |-> "buffer full, dropping event frame",
            event_name |-> d.name, frame |-> f]>>

\* (mutant) status frames are handed to the schema debouncer
route_statusToSchema(f) ==
    IF f \in SchemaFrames \cup {"statusChangeEventFrame"} THEN "schemaEvents"
    ELSE IF f \in StatusTopologyFrames THEN "nodeEvents"
    ELSE "default"

\* events.go:98-108: the type switch
route(f) ==
    IF f \in SchemaFrames THEN "schemaEvents"
    ELSE IF f \in StatusTopologyFrames THEN "nodeEvents"
    ELSE "default"

parseError ==
    [level |-> "error", msg |-> "unable to parse event frame",
     event_name |-> "-", frame |-> "nil"]

handlingDebug(f) ==
    [level |-> "debug", msg |-> "handling event frame",
     event_name |-> "-", frame |-> f]

invalidFrame(f) ==
    [level |-> "error", msg |-> "invalid event frame",
     event_name |-> "-", frame |-> f]

\* events.go:89-109
handleEvent(r) ==
    /\ Len(handled) < MaxEvents
    /\ handled' = Append(handled, r)
    /\ IF r.err
       THEN /\ slog' = Append(slog, parseError)
            /\ UNCHANGED <<schemaEvents, nodeEvents>>
       ELSE CASE route(r.frame) = "schemaEvents" ->
                   /\ schemaEvents' = debounce(schemaEvents, r.frame)
                   /\ slog' = Append(slog, handlingDebug(r.frame))
                                \o debounceLogs(schemaEvents, r.frame)
                   /\ UNCHANGED nodeEvents
              [] route(r.frame) = "nodeEvents" ->
                   /\ nodeEvents' = debounce(nodeEvents, r.frame)
                   /\ slog' = Append(slog, handlingDebug(r.frame))
                                \o debounceLogs(nodeEvents, r.frame)
                   /\ UNCHANGED schemaEvents
              [] OTHER ->
                   /\ slog' = Append(slog, handlingDebug(r.frame))
                                \o <<invalidFrame(r.frame)>>
                   /\ UNCHANGED <<schemaEvents, nodeEvents>>
    /\ UNCHANGED <<debVars, nodeVars>>

NextEvent == \E r \in ParseResults : handleEvent(r)

EventSpec == InitEvent /\ [][NextEvent]_vars

(***************************************************************************)
(* Properties of handleEvent.                                              *)
(***************************************************************************)
Errors(l) == {i \in 1..Len(l) : l[i].level = "error"}

\* the pending sequence after frame f went to a debouncer with pending
\* sequence ev
Buffered(ev, f) == IF Len(ev) < eventBufferSize THEN ev \o <<f>> ELSE ev

\* C10: handleEvent hands a schema-change frame to the schemaEvents debouncer
\* alone and a topology-change or status-change frame to the nodeEvents
\* debouncer alone (debounce appends it unless the buffer is full, and arms
\* the timer); for any other frame and for a parse failure it logs one error
\* and leaves both debouncers, pending sequences and timers, as they were.
C10_Step ==
    handled' # handled =>
        LET r == handled'[Len(handled')]
            newErrors == Cardinality(Errors(slog')) - Cardinality(Errors(slog))
        IN  /\ handled' = Append(handled, r)
            /\ (~r.err /\ r.frame \in SchemaFrames) =>
                  /\ schemaEvents'.events = Buffered(schemaEvents.events, r.frame)
                  /\ schemaEvents'.timer = eventDebounceTime
                  /\ nodeEvents' = nodeEvents
                  /\ newErrors = 0
            /\ (~r.err /\ r.frame \in StatusTopologyFrames) =>
                  /\ nodeEvents'.events = Buffered(nodeEvents.events, r.frame)
                  /\ nodeEvents'.timer = eventDebounceTime
                  /\ schemaEvents' = schemaEvents
                  /\ newErrors = 0
            /\ (r.err \/ r.frame \notin SchemaFrames \cup StatusTopologyFrames) =>
                  /\ schemaEvents' = schemaEvents
                  /\ nodeEvents' = nodeEvents
                  /\ newErrors = 1
                  /\ slog'[Len(slog')].level = "error"

C10_Routing == [][C10_Step]_vars

\* a schema frame, a status frame, then a frame that is no event: one in each
\* debouncer and one error logged
C10_Witness ==
    /\ Len(handled) = 3
    /\ ~handled[1].err /\ handled[1].frame = "schemaChangeTable"
    /\ ~handled[2].err /\ handled[2].frame = "statusChangeEventFrame"
    /\ ~handled[3].err /\ handled[3].frame = "readyFrame"
    /\ schemaEvents.events = <<"schemaChangeTable">>
    /\ nodeEvents.events = <<"statusChangeEventFrame">>
    /\ Cardinality(Errors(slog)) = 1

(***************************************************************************)
(* Session.handleSchemaEvent and handleKeyspaceChange.  The batch is the   *)
(* one the schemaEvents debouncer flushed; a schema frame is [kind,        *)
(* keyspace, change].  The trace lists the calls made on the schema        *)
(* describer, the control connection and the policy, each [op, keyspace,   *)
(* change].                                                                *)
(***************************************************************************)
\* frames in one batch handed to handleSchemaEvent
MaxSchemaBatch == 3

Keyspaces == {"ks1", "ks2"}

KeyspaceChanges == {"CREATED", "DROPPED"}

\* the change of a frame that is not keyspace-level is never read
schemaChangeFrame ==
    [kind : {"schemaChangeKeyspace"}, keyspace : Keyspaces, change : KeyspaceChanges]
    \cup [kind : SchemaFrames \ {"schemaChangeKeyspace"}, keyspace : Keyspaces,
          change : {"UPDATED"}]

SchemaCall(op, ks, ch) == [op |-> op, keyspace |-> ks, change |-> ch]

InitSchema ==
    /\ newEventDebouncer
    /\ newSessionDebouncers
    /\ batch \in SeqsUpTo(schemaChangeFrame, MaxSchemaBatch)
    /\ cfg = [DisableTopologyEvents |-> FALSE, DisableNodeStatusEvents |-> FALSE]
    /\ ring = {}
    /\ filtered = {}
    /\ hostState = <<>>
    /\ npc = "schema"
    /\ idx = 1
    /\ topologyEventReceived = FALSE
    /\ sEvents = <<>>
    /\ todo = {}
    /\ trace = <<>>

\* (mutant) the policy is notified before schema agreement is awaited
handleKeyspaceChange_notifyFirst(keyspace, change) ==
    <<SchemaCall("policy.KeyspaceChanged", keyspace, change),
      SchemaCall("awaitSchemaAgreement", "-", "-")>>

\* events.go:130-133
handleKeyspaceChange(keyspace, change) ==
    <<SchemaCall("awaitSchemaAgreement", "-", "-"),
      SchemaCall("policy.KeyspaceChanged", keyspace, change)>>

\* (mutant) a keyspace already invalidated in this batch is not invalidated
\* again
clearSchema_dedup(keyspace) ==
    IF \E i \in 1..Len(trace) :
          trace[i].op = "clearSchema" /\ trace[i].keyspace = keyspace
    THEN <<>>
    ELSE <<SchemaCall("clearSchema", keyspace, "-")>>

\* events.go:116,119,121,123,125: s.schemaDescriber.clearSchema(f.keyspace)
clearSchema(keyspace) ==
    <<SchemaCall("clearSchema", keyspace, "-")>>

\* events.go:114-126: the type switch on one frame; the calls it makes
schemaFrameCalls(f) ==
    IF f.kind = "schemaChangeKeyspace"
    THEN clearSchema(f.keyspace) \o handleKeyspaceChange(f.keyspace, f.change)
    ELSE IF f.kind \in SchemaFrames
    THEN clearSchema(f.keyspace)
    ELSE <<>>

\* events.go:113-127: one iteration of the loop over the frames
handleSchemaEvent ==
    /\ npc = "schema"
    /\ idx <= Len(batch)
    /\ trace' = trace \o schemaFrameCalls(batch[idx])
    /\ idx' = idx + 1
    /\ npc' = IF idx' > Len(batch) THEN "done" ELSE "schema"
    /\ UNCHANGED <<debVars, evVars>>
    /\ UNCHANGED <<batch, cfg, ring, filtered, hostState, topologyEventReceived,
                   sEvents, todo>>

NextSchema == handleSchemaEvent

SchemaSpec == InitSchema /\ [][NextSchema]_vars

(***************************************************************************)
(* Properties of handleSchemaEvent.                                        *)
(***************************************************************************)
IsClear(c) == c.op = "clearSchema"

IsAwait(c) == c.op = "awaitSchemaAgreement"

IsChanged(c) == c.op = "policy.KeyspaceChanged"

IsKeyspaceFrame(f) == f.kind = "schemaChangeKeyspace"

\* the frames the loop has been through
Processed == SubSeq(batch, 1, idx - 1)

\* C11: after any number of frames of the batch, the clearSchema calls are
\* one per frame, in batch order, each for its frame's keyspace (repeats
\* included); the awaitSchemaAgreement calls are as many as the keyspace-level
\* frames and so are the policy.KeyspaceChanged calls, which carry those
\* frames' keyspace and change in batch order; every KeyspaceChanged is
\* directly preceded by an awaitSchemaAgreement and that by the clearSchema
\* of the same keyspace.
C11_SchemaCalls ==
    LET clears == SelectSeq(trace, IsClear)
        changed == SelectSeq(trace, IsChanged)
        ksFrames == SelectSeq(Processed, IsKeyspaceFrame)
    IN  /\ Len(clears) = Len(Processed)
        /\ \A i \in 1..Len(clears) : clears[i].keyspace = Processed[i].keyspace
        /\ Len(SelectSeq(trace, IsAwait)) = Len(ksFrames)
        /\ Len(changed) = Len(ksFrames)
        /\ \A i \in 1..Len(changed) :
              /\ changed[i].keyspace = ksFrames[i].keyspace
              /\ changed[i].change = ksFrames[i].change
        /\ \A j \in 1..Len(trace) :
              IsChanged(trace[j]) =>
                  /\ j >= 3
                  /\ IsAwait(trace[j - 1])
                  /\ IsClear(trace[j - 2])
                  /\ trace[j - 2].keyspace = trace[j].keyspace
        /\ \A j \in 1..Len(trace) :
              IsAwait(trace[j]) => j < Len(trace) /\ IsChanged(trace[j + 1])

\* a table frame and two keyspace frames, all for ks1: three invalidations
\* of ks1 and two notifications
C11_Witness ==
    /\ npc = "done"
    /\ Len(batch) = 3
    /\ batch[1].kind = "schemaChangeTable"
    /\ batch[2].kind = "schemaChangeKeyspace"
    /\ batch[3].kind = "schemaChangeKeyspace"
    /\ \A i \in 1..3 : batch[i].keyspace = "ks1"
    /\ Len(SelectSeq(trace, IsClear)) = 3
    /\ Len(SelectSeq(trace, IsChanged)) = 2
    /\ Len(trace) = 7

(***************************************************************************)
(* handleNodeUp, handleNodeDown and handleNodeConnected called on the      *)
(* session in any order, for any host.  The ring and the host filter are   *)
(* fixed here; hosts of the ring start UP or DOWN.  Each call is recorded  *)
(* in the trace by its own entry, followed by the calls it makes.          *)
(***************************************************************************)
\* calls of the three handlers in one behaviour
MaxNodeOps == 3

InitHost ==
    /\ newEventDebouncer
    /\ newSessionDebouncers
    /\ batch = <<>>
    /\ cfg = [DisableTopologyEvents |-> FALSE, DisableNodeStatusEvents |-> FALSE]
    /\ ring \in SUBSET Hosts
    /\ filtered \in SUBSET Hosts
    /\ hostState \in [ring -> {"UP", "DOWN"}]
    /\ npc = "hosts"
    /\ idx = 1
    /\ topologyEventReceived = FALSE
    /\ sEvents = <<>>
    /\ todo = {}
    /\ trace = <<>>

IsHandlerEntry(c) ==
    c.op \in {"handleNodeUp", "handleNodeDown", "handleNodeConnected"}

\* handler calls made so far
nodeOps == Len(SelectSeq(trace, IsHandlerEntry))

\* (mutant) the filter is applied before the state is set
handleNodeConnected_filterFirst(h) ==
    IF h \in filtered
    THEN <<>>
    ELSE <<Call("setState(NodeUp)", h, "handleNodeConnected"),
           Call("policy.HostUp", h, "handleNodeConnected")>>

\* events.go:221-230: handleNodeConnected; the calls it makes
handleNodeConnected(h) ==
    IF h \in filtered
    THEN <<Call("setState(NodeUp)", h, "handleNodeConnected")>>
    ELSE <<Call("setState(NodeUp)", h, "handleNodeConnected"),
           Call("policy.HostUp", h, "handleNodeConnected")>>

\* a handler runs: its entry and its calls join the trace, its setState
\* calls take effect
runHandler(op, h, cs) ==
    /\ npc = "hosts"
    /\ nodeOps < MaxNodeOps
    /\ trace' = trace \o <<Call(op, h, "session")>> \o cs
    /\ hostState' = setStates(cs, hostState)
    /\ UNCHANGED <<debVars, evVars>>
    /\ UNCHANGED <<batch, cfg, ring, filtered, npc, idx, topologyEventReceived,
                   sEvents, todo>>

\* events.go:195
callNodeUp(h) == runHandler("handleNodeUp", h, handleNodeUp(h))

\* events.go:232
callNodeDown(h) == runHandler("handleNodeDown", h, handleNodeDown(h))

\* events.go:221: the pool reports a connection to a host it was given
callNodeConnected(h) ==
    /\ h \in ring
    /\ runHandler("handleNodeConnected", h, handleNodeConnected(h))

NextHost ==
    \/ \E h \in Hosts : callNodeUp(h)
    \/ \E h \in Hosts : callNodeDown(h)
    \/ \E h \in Hosts : callNodeConnected(h)

HostSpec == InitHost /\ [][NextHost]_vars

(***************************************************************************)
(* Properties of the three handlers.                                       *)
(***************************************************************************)
\* in a step: the handler that ran and the calls it made
Ran(op, h) ==
    /\ Len(trace') > Len(trace)
    /\ SubSeq(trace', 1, Len(trace)) = trace
    /\ trace'[Len(trace) + 1].op = op
    /\ trace'[Len(trace) + 1].host = h

Made == SubSeq(trace', Len(trace) + 2, Len(trace'))

IsCollaboratorCall(c) ==
    c.op \in {"policy.HostDown", "pool.removeHost", "pool.addHost",
              "policy.AddHost", "policy.HostUp", "debounceRingRefresh"}

Ops(cs) == [i \in 1..Len(cs) |-> cs[i].op]

\* C12: a handleNodeDown call for a host of the ring leaves that host DOWN
\* and every other host as it was, denied or not; it calls policy.HostDown
\* and then pool.removeHost for the host when the filter does not deny it and
\* makes no policy, pool or refresh call when it does; for a host that is not
\* in the ring it changes no state and makes no call at all.
C12_Step ==
    \A h \in Hosts :
        Ran("handleNodeDown", h) =>
            /\ h \in ring =>
                  /\ hostState'[h] = "DOWN"
                  /\ \A g \in ring \ {h} : hostState'[g] = hostState[g]
                  /\ \A i \in 1..Len(Made) : Made[i].host = h
                  /\ Ops(SelectSeq(Made, IsCollaboratorCall))
                       = IF h \in filtered THEN <<>>
                         ELSE <<"policy.HostDown", "pool.removeHost">>
            /\ h \notin ring =>
                  /\ hostState' = hostState
                  /\ Made = <<>>

C12_NodeDown == [][C12_Step]_vars

\* handleNodeDown ran for h1, which is UP in the ring and denied by the
\* filter, and for h2, which is not in the ring: h1 is DOWN and neither the
\* policy nor the pool was called
C12_Witness ==
    /\ ring = {"h1"}
    /\ filtered = {"h1"}
    /\ hostState["h1"] = "DOWN"
    /\ Len(trace) = 3
    /\ trace[1] = Call("handleNodeDown", "h1", "session")
    /\ trace[2].op = "setState(NodeDown)"
    /\ trace[3] = Call("handleNodeDown", "h2", "session")

\* C13: a handleNodeUp call for a host that is in the ring and passes the
\* filter calls pool.addHost and then policy.AddHost for that host and
\* nothing else; for a host that is not in the ring it requests a ring
\* refresh and calls neither pool nor policy; for a host of the ring that the
\* filter denies it makes no call.
C13_Step ==
    \A h \in Hosts :
        Ran("handleNodeUp", h) =>
            /\ \A i \in 1..Len(Made) : Made[i].host = h
            /\ (h \in ring /\ h \notin filtered) =>
                  Ops(Made) = <<"pool.addHost", "policy.AddHost">>
            /\ h \notin ring => Ops(Made) = <<"debounceRingRefresh">>
            /\ (h \in ring /\ h \in filtered) => Made = <<>>
            /\ (\E i \in 1..Len(Made) : Made[i].op \in {"pool.addHost", "policy.AddHost"})
                  => (h \in ring /\ h \notin filtered)

C13_NodeUp == [][C13_Step]_vars

\* handleNodeUp ran for h1 (in the ring, allowed), for h2 (not in the ring,
\* though the filter would deny it) and finished: admission for h1, a
\* refresh request for h2
C13_Witness ==
    /\ ring = {"h1"}
    /\ filtered = {"h2"}
    /\ Ops(trace) = <<"handleNodeUp", "pool.addHost", "policy.AddHost",
                      "handleNodeUp", "debounceRingRefresh">>
    /\ trace[1].host = "h1"
    /\ trace[4].host = "h2"

DownEntries(h) ==
    {i \in 1..Len(trace) : trace[i].op = "handleNodeDown" /\ trace[i].host = h}

ConnectedEntries(h) ==
    {i \in 1..Len(trace) : trace[i].op = "handleNodeConnected" /\ trace[i].host = h}

\* C14, steps: a host's state changes only in a handleNodeConnected call for
\* it, to UP, or in a handleNodeDown call for it, to DOWN; a handleNodeUp call
\* changes no state; handleNodeConnected leaves its host UP whether or not
\* the filter denies it and calls policy.HostUp exactly when it does not.
C14_Step ==
    /\ \A h \in ring :
          hostState'[h] # hostState[h] =>
              \/ Ran("handleNodeConnected", h) /\ hostState'[h] = "UP"
              \/ Ran("handleNodeDown", h) /\ hostState'[h] = "DOWN"
    /\ \A h \in Hosts : Ran("handleNodeUp", h) => hostState' = hostState
    /\ \A h \in Hosts :
          Ran("handleNodeConnected", h) =>
              /\ hostState'[h] = "UP"
              /\ Ops(SelectSeq(Made, IsCollaboratorCall))
                   = IF h \in filtered THEN <<>> ELSE <<"policy.HostUp">>

\* C14, states: a host for which handleNodeDown has run is UP only if
\* handleNodeConnected ran for it after the last handleNodeDown.
C14_UpOnlyByConnected ==
    \A h \in ring :
        (DownEntries(h) # {} /\ hostState[h] = "UP") =>
            \E c \in ConnectedEntries(h) : \A d \in DownEntries(h) : d < c

C14_HostState == [][C14_Step]_vars /\ []C14_UpOnlyByConnected

\* h1 is denied by the filter: it went DOWN, status UP arrived and left it
\* DOWN, then the pool connected and it is UP with no policy.HostUp
C14_Witness ==
    /\ "h1" \in ring
    /\ "h1" \in filtered
    /\ Ops(trace) = <<"handleNodeDown", "setState(NodeDown)", "handleNodeUp",
                      "handleNodeConnected", "setState(NodeUp)">>
    /\ \A i \in 1..Len(trace) : trace[i].host = "h1"
    /\ hostState["h1"] = "UP"

(***************************************************************************)
(* Further properties of the eventDebouncer.                               *)
(***************************************************************************)
\* the flusher's call of flush, in a step
FlushStep == fpc = "flush" /\ fpc' = "unlock"

\* C15: a flush that finds the pending sequence empty starts no callback and
\* leaves the debouncer as it was (only the flusher moves on to its unlock);
\* every callback invocation ever started has a batch of at least one and at
\* most eventBufferSize frames.
C15_Step ==
    (FlushStep /\ events = <<>>) =>
        /\ calls' = calls
        /\ events' = events
        /\ UNCHANGED <<timer, timerC, mu, quit, log, ppc, fr, seen, spc,
                       nArrived, accepted>>

C15_Batches ==
    \A i \in 1..Len(calls) :
        /\ Len(calls[i].batch) >= 1
        /\ Len(calls[i].batch) <= eventBufferSize

C15_EmptyFlush == []C15_Batches /\ [][C15_Step]_vars

\* two frames were flushed together less than an interval after the second
\* call, while the timer that call armed was running; that timer has since
\* fired, and the flusher has handled it with a flush of the empty buffer:
\* still one callback
C15_Witness ==
    /\ fpc = "unlock"
    /\ events = <<>>
    /\ nArrived = 2
    /\ \A p \in Producers : ppc[p] = "idle"
    /\ Len(calls) = 1
    /\ calls[1].batch = <<1, 2>>
    /\ calls[1].at < eventDebounceTime
    /\ timer = -1
    /\ ~timerC

(***************************************************************************)
(* Status events for hosts the ring does not hold (NodeSpec).              *)
(***************************************************************************)
\* C16 as stated: when handleNodeEvent has returned, every host that is not
\* in the ring and for which it dispatched handleNodeUp or handleNodeDown has
\* had a ring refresh requested after that dispatch.
C16_UnknownHost ==
    npc = "done" =>
        \A h \in Hosts \ ring :
            \A i \in Dispatches(h) :
                \E j \in Refreshes : j > i

\* C16 as amended: a handleNodeUp dispatched for a host that is not in the
\* ring is directly followed by that handler's ring refresh request and by
\* no pool or policy call for the host; a handleNodeDown dispatched for such
\* a host makes no call at all, so it requests no refresh.
C16_Amended ==
    \A h \in Hosts \ ring :
        \A i \in Dispatches(h) :
            /\ trace[i].op = "handleNodeUp" =>
                  /\ i < Len(trace)
                  /\ trace[i + 1] = Call("debounceRingRefresh", h, "handleNodeUp")
            /\ trace[i].op = "handleNodeDown" =>
                  (i = Len(trace) \/ trace[i + 1].by = "handleNodeEvent")
            /\ \A j \in 1..Len(trace) :
                  (trace[j].host = h /\ j # i) =>
                      (j = i + 1 /\ trace[j].op = "debounceRingRefresh")

\* neither host is in the ring; UP was dispatched for h1 and DOWN for h2: one
\* refresh request, from handleNodeUp
C16_Witness ==
    /\ npc = "done"
    /\ ring = {}
    /\ \E i \in Dispatches("h1") : trace[i].op = "handleNodeUp"
    /\ \E i \in Dispatches("h2") : trace[i].op = "handleNodeDown"
    /\ Cardinality(Refreshes) = 1
    /\ Len(trace) = 3

(***************************************************************************)
(* handleNodeEvent while the ring is refreshed.  debounceRingRefresh and   *)
(* the refresh it asks for are not part of events.go: the request is       *)
(* debounced, so the refresh itself runs in a task of its own, at any time *)
(* after a request, and answers every request made before it.  A refresh   *)
(* adds hosts it discovers to the ring, each UP or DOWN.  Both kinds of    *)
(* events are enabled here, as they are by default.                        *)
(***************************************************************************)
\* frames in one batch handled while the ring is refreshed
MaxRingBatch == 2

InitRing ==
    /\ newEventDebouncer
    /\ newSessionDebouncers
    /\ batch \in SeqsUpTo(NodeFrames, MaxRingBatch)
    /\ cfg = [DisableTopologyEvents |-> FALSE, DisableNodeStatusEvents |-> FALSE]
    /\ ring \in SUBSET Hosts
    /\ filtered \in SUBSET Hosts
    /\ hostState = [h \in ring |-> "UP"]
    /\ handleNodeEventEntry

RingRefreshes == {i \in 1..Len(trace) : trace[i].op = "refreshRing"}

\* a refresh was requested and none has run since
refreshPending ==
    \E i \in Refreshes : \A j \in RingRefreshes : j < i

\* the sequences that list every host of S once; the order in which a
\* refresh adds hosts has no effect here, and one is picked
Orderings(S) ==
    {s \in [1..Cardinality(S) -> S] : \A i, j \in DOMAIN s : s[i] = s[j] => i = j}

\* the debounced ring refresh runs and adds the hosts it discovers
ringRefresh ==
    /\ refreshPending
    /\ \E found \in SUBSET (Hosts \ ring) :
          /\ ring' = ring \cup found
          /\ \E st \in [found -> {"UP", "DOWN"}] :
                hostState' = [h \in ring' |-> IF h \in found THEN st[h] ELSE hostState[h]]
          /\ LET order == CHOOSE o \in Orderings(found) : TRUE
             IN  trace' = Append(trace, Call("refreshRing", "-", "ringRefresher"))
                            \o [i \in 1..Len(order) |->
                                  Call("ring.addHost", order[i], "ringRefresher")]
    /\ UNCHANGED <<debVars, evVars>>
    /\ UNCHANGED <<batch, cfg, filtered, npc, idx, topologyEventReceived,
                   sEvents, todo>>

NextRing ==
    \/ nodeScan
    \/ nodeRefresh
    \/ \E h \in Hosts : nodeDispatch(h)
    \/ ringRefresh

RingSpec == InitRing /\ [][NextRing]_vars

(***************************************************************************)
(* Properties of handleNodeEvent while the ring is refreshed.              *)
(***************************************************************************)
HasNewNode(h) ==
    \E i \in 1..Len(batch) :
        batch[i] = [kind |-> "topology", change |-> "NEW_NODE", host |-> h]

Added(h) ==
    {i \in 1..Len(trace) : trace[i].op = "ring.addHost" /\ trace[i].host = h}

PoolAdds(h) ==
    {i \in 1..Len(trace) : trace[i].op = "pool.addHost" /\ trace[i].host = h}

\* a NEW_NODE frame and a last status frame UP for h, both kinds of events
\* enabled, and the filter lets h pass
NewNodeThenUp(h) ==
    /\ HasNewNode(h)
    /\ StatusIdx(h) # {}
    /\ LastChange(h) = "UP"
    /\ ~cfg.DisableTopologyEvents
    /\ ~cfg.DisableNodeStatusEvents
    /\ h \notin filtered

\* C17 as stated: when handleNodeEvent has returned from a batch with a
\* NEW_NODE frame and a status UP for the same host, handleNodeUp has asked
\* the pool to add that host.
C17_UpNotDiscarded ==
    npc = "done" =>
        \A h \in Hosts : NewNodeThenUp(h) => PoolAdds(h) # {}

\* C17 as amended, steps: handleNodeUp asks the pool to add the host when the
\* ring holds it at the lookup and otherwise only requests another refresh.
C17_Step ==
    \A h \in Hosts :
        (Ran("handleNodeUp", h) /\ h \notin filtered) =>
            IF h \in ring
            THEN Ops(Made) = <<"pool.addHost", "policy.AddHost">>
            ELSE Made = <<Call("debounceRingRefresh", h, "handleNodeUp")>>

\* C17 as amended, states: for such a batch the refresh request is the first
\* call handleNodeEvent makes, before every dispatch; handleNodeUp is
\* dispatched once for the host; and if the host came into the ring by a
\* refresh, the pool was asked to add it exactly when that refresh ran before
\* the dispatch: when it had not, the UP event ended in a second refresh
\* request and in no pool call.
C17_Order ==
    \A h \in Hosts :
        (npc # "scan" /\ NewNodeThenUp(h)) =>
            /\ Len(trace) >= 1
            /\ trace[1] = Call("debounceRingRefresh", "-", "handleNodeEvent")
            /\ \A i \in Dispatches(h) :
                  /\ trace[i].op = "handleNodeUp"
                  /\ \A k \in Added(h) : (PoolAdds(h) # {}) <=> (k < i)
                  /\ i < Len(trace)
                  /\ (PoolAdds(h) = {}) <=>
                        (trace[i + 1] = Call("debounceRingRefresh", h, "handleNodeUp"))
            /\ npc = "done" => Cardinality(Dispatches(h)) = 1

C17_Amended == []C17_Order /\ [][C17_Step]_vars

\* NEW_NODE and UP for h1, which the ring did not hold: the refresh ran before
\* the dispatch, and handleNodeUp went on to the pool
C17_Witness ==
    /\ npc = "done"
    /\ Len(batch) = 2
    /\ NewNodeThenUp("h1")
    /\ Ops(trace) = <<"debounceRingRefresh", "refreshRing", "ring.addHost",
                      "handleNodeUp", "pool.addHost", "policy.AddHost">>
    /\ trace[3].host = "h1"

\* C18: while every debounce call so far came less than the interval after
\* the one before and less than the interval has passed since the last one,
\* no callback has been started, whatever the number of calls and whether or
\* not their frames were dropped; when all calls came that close, a callback
\* is started only a full interval or more after the last call.
C18_Idle ==
    /\ (allClose /\ nArrived > 0 /\ sinceLast < eventDebounceTime) => calls = <<>>
    /\ allClose => \A i \in 1..Len(calls) : calls[i].at >= eventDebounceTime

\* three calls, each one tick after the one before: the third found the
\* buffer full and its frame was dropped, yet it re-armed the timer; the
\* interval has passed since the first call and nothing has been flushed
C18_Witness ==
    /\ nArrived = 3
    /\ allClose
    /\ \A p \in Producers : ppc[p] = "idle"
    /\ events = <<1, 2>>
    /\ Len(log) = 1
    /\ log[1].frame = 3
    /\ sinceLast = 1
    /\ timer = eventDebounceTime - 1
    /\ calls = <<>>

\* C19: a flush of a non-empty buffer starts one more callback, which is
\* running when flush returns, and leaves the callbacks started before as
\* they are, running or not; whenever a callback is running it may return,
\* whatever the state of the others; the flusher at its flush and stop at its
\* close can always take their step, whatever callbacks are running.
C19_Step ==
    (FlushStep /\ events # <<>>) =>
        /\ Len(calls') = Len(calls) + 1
        /\ SubSeq(calls', 1, Len(calls)) = calls
        /\ calls'[Len(calls')].running
        /\ calls'[Len(calls')].batch = events

C19_Free ==
    /\ \A i \in 1..Len(calls) : calls[i].running => ENABLED callbackReturn(i)
    /\ fpc = "flush" => ENABLED flusherFlush
    /\ spc = "close" => ENABLED stopClose

C19_Unserialized == []C19_Free /\ [][C19_Step]_vars

\* two callbacks were started; the second has returned, the first is still
\* running, and stop has returned
C19_Witness ==
    /\ Len(calls) = 2
    /\ calls[1].running
    /\ ~calls[2].running
    /\ spc = "returned"

\* frames of debounce calls that took the lock after the flusher received
\* the stop signal
AfterStop == {f \in 1..nArrived : stoppedAt >= 0 /\ f > stoppedAt}

Delivered == Range(Flatten(calls))

\* C20: the flusher's receive of the stop signal starts no callback and
\* leaves the pending sequence as it is; from then on no callback is started
\* and no frame leaves the pending sequence, so the frames pending at that
\* moment and the frames debounce appends later stay buffered and are never
\* delivered; when the timer's value and the stop signal are both ready, the
\* flusher can take either.
C20_Step ==
    /\ (fpc # "done" /\ fpc' = "done") =>
          /\ calls' = calls
          /\ events' = events
    /\ fpc = "done" =>
          /\ Len(calls') = Len(calls)
          /\ \A i \in 1..Len(calls) : calls'[i].batch = calls[i].batch
          /\ Len(events') >= Len(events)
          /\ SubSeq(events', 1, Len(events)) = events

C20_State ==
    /\ fpc = "done" => Range(events) \cap Delivered = {}
    /\ AfterStop \cap Delivered = {}
    /\ (fpc = "select" /\ timerC /\ spc = "send") =>
          (ENABLED flusherTimer /\ ENABLED flusherQuit)

C20_StopDoesNotFlush == []C20_State /\ [][C20_Step]_vars

\* frame 1's interval elapsed and the timer fired, but the flusher took the
\* stop signal; frame 2 was passed to debounce after that.  Both are pending,
\* the timer has fired again, stop has returned and no callback was started
C20_Witness ==
    /\ fpc = "done"
    /\ spc = "returned"
    /\ stoppedAt = 1
    /\ events = <<1, 2>>
    /\ \A p \in Producers : ppc[p] = "idle"
    /\ timer = -1
    /\ timerC
    /\ calls = <<>>

=============================================================================
